---- MODULE Spec2Model ----
(***************************************************************************)
(* Frame export snippets of AR-Sandbox-RC:                                 *)
(*   magic_sand_data_extractor.cpp : exportFrameData                       *)
(*   magic_sand_extractor.cpp      : exportKinectData, saveDepthData,      *)
(*                                   saveColorData                         *)
(* The host application owns the frame grabber, the frame counter, the     *)
(* clock and the file system; they are the state of this model.  One       *)
(* action is one pass of the host loop (Update) or one call of an export   *)
(* function.                                                               *)
(*                                                                         *)
(* The two snippets are alternatives for the same place in the main loop   *)
(* and write disjoint sets of files; a run has one of them installed.      *)
(*                                                                         *)
(* openFrameworks is modelled by what the calls used here do: an ofPixels  *)
(* that is not allocated has width, height and size 0; ofFile opened with  *)
(* ofFile::WriteOnly creates the file or truncates it; writeFromBuffer     *)
(* writes the first size() bytes and its bool result is dropped by the     *)
(* callers; ofSaveJson writes the members of the object in key order.  A   *)
(* file operation can fail in the environment: the open fails and the file *)
(* system is untouched, or the write stops short and the truncated file    *)
(* stays, since no caller removes it.                                      *)
(***************************************************************************)
EXTENDS Integers, Sequences, FiniteSets, TLC

\* ------------------------------------------------------------------ bounds
\* host frames are numbered 0..MaxFrame
MaxFrame == 1
\* resolution of the capture device: an allocated buffer is Width x Height
Width == 2
Height == 1
\* the bytes of a captured buffer start at a value in 0..MaxPix
MaxPix == 1
\* number of file operations the environment may fail in one run
MaxFaults == 1
\* a write that fails stops after at most MaxShort units
MaxShort == 0

VARIABLES
    frameNum,       \* ofGetFrameNum()
    elapsedMillis,  \* ofGetElapsedTimeMillis()
    kinectGrabber,  \* [isFrameNew, depthPixels, colorPixels]
    installed,      \* the snippet pasted into the host's main loop
    files,          \* the file system: path -> contents of the file
    faults,         \* file operations failed so far
    last,           \* history: the last export call of this pass and what it did
    depthPassed     \* history: frame -> depth bytes last written in full

vars == <<frameNum, elapsedMillis, kinectGrabber, installed, files, faults, last, depthPassed>>

\* ------------------------------------------------------------- ofPixels
\* ofPixels (unsigned char elements): an unallocated buffer has width 0,
\* height 0, no channels and no data; size() is width*height*channels.
Unallocated ==
    [allocated |-> FALSE, width |-> 0, height |-> 0, channels |-> 0, data |-> <<>>]

Ramp(n, start) == [i \in 1..n |-> (start + i - 1) % 256]

Pixels(w, h, ch, start) ==
    [allocated |-> TRUE, width |-> w, height |-> h, channels |-> ch,
     data |-> Ramp(w * h * ch, start)]

isAllocated(pixels) == pixels.allocated
getWidth(pixels) == pixels.width
getHeight(pixels) == pixels.height
getData(pixels) == pixels.data
size(pixels) == pixels.width * pixels.height * pixels.channels

\* ------------------------------------------------------------ ofToString
Digit == <<"0", "1", "2", "3", "4", "5", "6", "7", "8", "9">>

RECURSIVE ofToString(_)
ofToString(n) ==
    IF n < 10 THEN <<Digit[n + 1]>>
    ELSE ofToString(n \div 10) \o <<Digit[(n % 10) + 1]>>

\* --------------------------------------------------------------- paths
FixedDepthPath(n) == <<"magic_sand_data/depth/depth_">> \o <<".raw">>

depthPath(n) == <<"magic_sand_data/depth/depth_">> \o ofToString(n) \o <<".raw">>

rgbPath(n) == <<"magic_sand_data/rgb/rgb_">> \o ofToString(n) \o <<".raw">>

metaPath(n) == <<"magic_sand_data/metadata_">> \o ofToString(n) \o <<".json">>

kinectDepthPath == <<"kinect_depth.raw">>

kinectColorPath == <<"kinect_color.raw">>

\* ---------------------------------------------------------- file system
\* What the environment does to one file operation: it succeeds, the open
\* fails (the file system is left as it was), or the file is opened, which
\* truncates it, and the write stops after n units.
Ok == [fail |-> "none", n |-> 0]
OpenFail == [fail |-> "open", n |-> 0]
Short(k) == [fail |-> "short", n |-> k]

Min(a, b) == IF a < b THEN a ELSE b

Outcomes(len) == {Ok, OpenFail} \cup {Short(k) : k \in 0..Min(len - 1, MaxShort)}

\* the outcomes left to the environment once f operations have failed
Budgeted(f, len) == IF f < MaxFaults THEN Outcomes(len) ELSE {Ok}

Failed(o) == o.fail # "none"

Exists(fs, path) == path \in DOMAIN fs

Put(fs, path, content) ==
    [p \in (DOMAIN fs) \cup {path} |-> IF p = path THEN content ELSE fs[p]]

RawFile(bytes) == [bytes |-> bytes]
JsonFile(members) == [members |-> members]

\* ofFile f(path, ofFile::WriteOnly, true); f.writeFromBuffer(data, n); f.close()
WriteWithHeader(fs, path, data, n, o) ==
    IF o.fail = "open" THEN fs
    ELSE IF o.fail = "short" THEN Put(fs, path, RawFile(SubSeq(data, 1, o.n)))
    ELSE Put(fs, path, RawFile(<<n>> \o SubSeq(data, 1, n)))

writeFromBuffer(fs, path, data, n, o) ==
    IF o.fail = "open" THEN fs
    ELSE IF o.fail = "short" THEN Put(fs, path, RawFile(SubSeq(data, 1, o.n)))
    ELSE Put(fs, path, RawFile(SubSeq(data, 1, n)))

\* ofJson keeps its members sorted by key; ofSaveJson opens the file for
\* writing and streams the members out.
JsonKeys == <<"depth_height", "depth_width", "frame", "rgb_height", "rgb_width", "timestamp">>

ofJson(doc) == [i \in 1..Len(JsonKeys) |-> <<JsonKeys[i], doc[JsonKeys[i]]>>]

ofSaveJson(fs, path, json, o) ==
    IF o.fail = "open" THEN fs
    ELSE IF o.fail = "short" THEN Put(fs, path, JsonFile(SubSeq(json, 1, o.n)))
    ELSE Put(fs, path, JsonFile(json))

\* value of member key in a complete metadata file
Member(file, key) ==
    LET i == CHOOSE j \in 1..Len(file.members) : file.members[j][1] = key
    IN  file.members[i][2]

Complete(file) == Len(file.members) = Len(JsonKeys)

\* ------------------------------------------------------- frame grabber
AlwaysNew(g) == TRUE

isFrameNew(g) == g.isFrameNew
getDepthPixels(g) == g.depthPixels
getColorPixels(g) == g.colorPixels

\* ------------------------------------------- one call of an export function
\* The locals of a call, the file system as the call has left it so far, the
\* file operations in the order the call made them, and what became of each
\* artifact.
Artifacts == {"depth", "color", "metadata"}

Start(fs) ==
    [files |-> fs, log |-> <<>>,
     depthPixels |-> Unallocated, colorPixels |-> Unallocated,
     outcome |-> [a \in Artifacts |-> "skipped"]]

Result(o) == IF Failed(o) THEN "failed" ELSE "written"

FetchDepth(st, g) ==
    [st EXCEPT !.depthPixels = getDepthPixels(g), !.log = Append(@, "getDepthPixels")]

FetchColor(st, g) ==
    [st EXCEPT !.colorPixels = getColorPixels(g), !.log = Append(@, "getColorPixels")]

WriteDepthUnguarded(st, n, o) ==
    [st EXCEPT !.files = writeFromBuffer(@, depthPath(n), getData(st.depthPixels),
                                         size(st.depthPixels), o),
               !.log = Append(@, "write depth"),
               !.outcome["depth"] = Result(o)]

WriteDepth(st, n, o) ==
    IF isAllocated(st.depthPixels)
    THEN [st EXCEPT !.files = writeFromBuffer(@, depthPath(n), getData(st.depthPixels),
                                              size(st.depthPixels), o),
                    !.log = Append(@, "write depth"),
                    !.outcome["depth"] = Result(o)]
    ELSE st

WriteColor(st, n, o) ==
    IF isAllocated(st.colorPixels)
    THEN [st EXCEPT !.files = writeFromBuffer(@, rgbPath(n), getData(st.colorPixels),
                                              size(st.colorPixels), o),
                    !.log = Append(@, "write color"),
                    !.outcome["color"] = Result(o)]
    ELSE st

MetadataOfGrabber(st, n, t) ==
    [frame |-> n, timestamp |-> t,
     depth_width |-> Width, depth_height |-> Height,
     rgb_width |-> getWidth(st.colorPixels), rgb_height |-> getHeight(st.colorPixels)]

Metadata(st, n, t) ==
    [frame |-> n, timestamp |-> t,
     depth_width |-> getWidth(st.depthPixels), depth_height |-> getHeight(st.depthPixels),
     rgb_width |-> getWidth(st.colorPixels), rgb_height |-> getHeight(st.colorPixels)]

WriteMetaUnlessFailed(st, n, t, o) ==
    IF \E a \in Artifacts : st.outcome[a] = "failed" THEN st
    ELSE [st EXCEPT !.files = ofSaveJson(@, metaPath(n), ofJson(Metadata(st, n, t)), o),
                    !.log = Append(@, "write metadata"),
                    !.outcome["metadata"] = Result(o)]

WriteMetaIfBoth(st, n, t, o) ==
    IF isAllocated(st.depthPixels) # isAllocated(st.colorPixels) THEN st
    ELSE [st EXCEPT !.files = ofSaveJson(@, metaPath(n), ofJson(Metadata(st, n, t)), o),
                    !.log = Append(@, "write metadata"),
                    !.outcome["metadata"] = Result(o)]

WriteMeta(st, n, t, o) ==
    [st EXCEPT !.files = ofSaveJson(@, metaPath(n), ofJson(Metadata(st, n, t)), o),
               !.log = Append(@, "write metadata"),
               !.outcome["metadata"] = Result(o)]

FetchBothFirst(fs, g, n, t, od, oc, om) ==
    IF isFrameNew(g)
    THEN WriteMeta(WriteColor(WriteDepth(FetchColor(FetchDepth(Start(fs), g), g),
                                         n, od), n, oc), n, t, om)
    ELSE Start(fs)

exportFrameData(fs, g, n, t, od, oc, om) ==
    IF isFrameNew(g)
    THEN WriteMeta(WriteColor(FetchColor(WriteDepth(FetchDepth(Start(fs), g), n, od), g),
                              n, oc), n, t, om)
    ELSE Start(fs)

saveDepthData(st, o) ==
    [st EXCEPT !.files = writeFromBuffer(@, kinectDepthPath, getData(st.depthPixels),
                                         size(st.depthPixels), o),
               !.log = Append(@, "write depth"),
               !.outcome["depth"] = Result(o)]

saveColorData(st, o) ==
    [st EXCEPT !.files = writeFromBuffer(@, kinectColorPath, getData(st.colorPixels),
                                         size(st.colorPixels), o),
               !.log = Append(@, "write color"),
               !.outcome["color"] = Result(o)]

exportKinectData(fs, g, od, oc) ==
    IF isFrameNew(g)
    THEN saveColorData(saveDepthData(FetchColor(FetchDepth(Start(fs), g), g), od), oc)
    ELSE Start(fs)

\* ------------------------------------------------------------ the machine
\* Both functions return void: the caller is told nothing about any artifact.
Void == [a \in Artifacts |-> "nothing"]

NoCall ==
    [fn |-> "none", frame |-> 0, isNew |-> FALSE,
     depthPixels |-> Unallocated, colorPixels |-> Unallocated,
     log |-> <<>>, outcome |-> [a \in Artifacts |-> "skipped"], reported |-> Void]

\* The buffers the grabber can hold after a capture: each is not yet
\* allocated, or a raster of the device's resolution (one channel of depth,
\* three of colour).
Captures ==
    {[depthPixels |-> d, colorPixels |-> c] :
        d \in {Unallocated} \cup {Pixels(Width, Height, 1, s) : s \in 0..MaxPix},
        c \in {Unallocated, Pixels(Width, Height, 3, MaxPix + 1)}}

Snippets == {"exportFrameData", "exportKinectData"}

\* The first pass of the host loop: frame 0, nothing written yet; the grabber
\* has a first frame or none.
Init ==
    /\ frameNum = 0
    /\ elapsedMillis = 0
    /\ \/ kinectGrabber = [isFrameNew |-> FALSE,
                           depthPixels |-> Unallocated, colorPixels |-> Unallocated]
       \/ \E b \in Captures :
              kinectGrabber = [isFrameNew |-> TRUE,
                               depthPixels |-> b.depthPixels, colorPixels |-> b.colorPixels]
    /\ installed \in Snippets
    /\ files = << >>
    /\ faults = 0
    /\ last = NoCall
    /\ depthPassed = << >>

\* A later pass of the host loop: the frame counter and the clock advance and
\* the grabber is updated; without a new frame its buffers stay as they were.
Update ==
    /\ frameNum < MaxFrame
    /\ frameNum' = frameNum + 1
    /\ elapsedMillis' = elapsedMillis + 1
    /\ \/ kinectGrabber' = [kinectGrabber EXCEPT !.isFrameNew = FALSE]
       \/ \E b \in Captures :
              kinectGrabber' = [isFrameNew |-> TRUE,
                                depthPixels |-> b.depthPixels, colorPixels |-> b.colorPixels]
    /\ last' = NoCall
    /\ UNCHANGED <<installed, files, faults, depthPassed>>

\* the environment fails only operations the call makes, within its budget
Admissible(st, oa) ==
    /\ \A a \in Artifacts : st.outcome[a] = "skipped" => oa[a] = Ok
    /\ faults + Cardinality({a \in Artifacts : st.outcome[a] = "failed"}) <= MaxFaults

Called(fn, st) ==
    [fn |-> fn, frame |-> frameNum, isNew |-> kinectGrabber.isFrameNew,
     depthPixels |-> kinectGrabber.depthPixels, colorPixels |-> kinectGrabber.colorPixels,
     log |-> st.log, outcome |-> st.outcome, reported |-> Void]

Remember(h, n, st, o) ==
    IF st.outcome["depth"] = "written" THEN Put(h, n, getData(st.depthPixels))
    ELSE IF st.outcome["depth"] = "failed" /\ o.fail = "short"
         THEN [m \in (DOMAIN h) \ {n} |-> h[m]]
         ELSE h

ExportFrameData ==
    /\ installed = "exportFrameData"
    /\ \E od \in Budgeted(faults, size(kinectGrabber.depthPixels)),
       oc \in Budgeted(faults, size(kinectGrabber.colorPixels)),
       om \in Budgeted(faults, Len(JsonKeys)) :
        LET st == exportFrameData(files, kinectGrabber, frameNum, elapsedMillis, od, oc, om)
        IN  /\ Admissible(st, [depth |-> od, color |-> oc, metadata |-> om])
            /\ files' = st.files
            /\ faults' = faults + Cardinality({a \in Artifacts : st.outcome[a] = "failed"})
            /\ last' = Called("exportFrameData", st)
            /\ depthPassed' = Remember(depthPassed, frameNum, st, od)
            /\ UNCHANGED <<frameNum, elapsedMillis, kinectGrabber, installed>>

ExportKinectData ==
    /\ installed = "exportKinectData"
    /\ \E od \in Budgeted(faults, size(kinectGrabber.depthPixels)),
       oc \in Budgeted(faults, size(kinectGrabber.colorPixels)) :
        LET st == exportKinectData(files, kinectGrabber, od, oc)
        IN  /\ Admissible(st, [depth |-> od, color |-> oc, metadata |-> Ok])
            /\ files' = st.files
            /\ faults' = faults + Cardinality({a \in Artifacts : st.outcome[a] = "failed"})
            /\ last' = Called("exportKinectData", st)
            /\ UNCHANGED <<frameNum, elapsedMillis, kinectGrabber, installed, depthPassed>>

Next == Update \/ ExportFrameData \/ ExportKinectData

Spec == Init /\ [][Next]_vars

\* ----------------------------------------------------------- properties
Range(q) == {q[i] : i \in 1..Len(q)}

\* path names the same file, with the same contents, in fs and in gs, or no
\* file in either
Same(fs, gs, path) ==
    /\ Exists(fs, path) <=> Exists(gs, path)
    /\ Exists(fs, path) => fs[path] = gs[path]

ByFrameData == last.fn = "exportFrameData"

Count(what) == Cardinality({a \in Artifacts : last.outcome[a] = what})

Allocations ==
    (IF last.depthPixels.allocated THEN 1 ELSE 0) + (IF last.colorPixels.allocated THEN 1 ELSE 0)

\* C1: a call of exportFrameData or exportKinectData made while the grabber
\* reports no new frame leaves the file system exactly as it was: no file is
\* created, removed or changed.
C1_NoNewFrameNoWrites ==
    [][(~kinectGrabber.isFrameNew /\ (ExportFrameData \/ ExportKinectData))
          => files' = files]_vars

C1_Witness ==
    /\ last.fn \in Snippets
    /\ ~last.isNew
    /\ DOMAIN files # {}

\* C2: after a call of exportFrameData on a new frame whose depth buffer is
\* unallocated, the depth step was skipped and no depth file of that frame
\* exists, whatever the colour buffer is; the colour write was made exactly
\* when the colour buffer is allocated and, unless it failed, the colour file
\* of the frame holds the colour bytes.
C2_UnallocatedDepthSkipped ==
    (ByFrameData /\ last.isNew /\ ~last.depthPixels.allocated) =>
        /\ last.outcome["depth"] = "skipped"
        /\ "write depth" \notin Range(last.log)
        /\ ~Exists(files, depthPath(last.frame))
        /\ last.colorPixels.allocated <=> "write color" \in Range(last.log)
        /\ last.outcome["color"] = "written" =>
               /\ Exists(files, rgbPath(last.frame))
               /\ files[rgbPath(last.frame)] = RawFile(last.colorPixels.data)

C2_Witness ==
    /\ ByFrameData /\ last.isNew
    /\ ~last.depthPixels.allocated
    /\ last.colorPixels.allocated
    /\ last.outcome["color"] = "written"

\* C3: the depth names of two different frames differ, and so do the colour
\* names and the metadata names; a step taken in one frame changes no
\* artifact of another frame.
C3_DistinctNames ==
    [][\A n \in 0..frameNum', m \in 0..frameNum' : n # m =>
          /\ depthPath(n) # depthPath(m)
          /\ rgbPath(n) # rgbPath(m)
          /\ metaPath(n) # metaPath(m)
          /\ n # frameNum => /\ Same(files, files', depthPath(n))
                             /\ Same(files, files', rgbPath(n))
                             /\ Same(files, files', metaPath(n))]_vars

C3_Witness ==
    /\ ByFrameData /\ last.frame > 0
    /\ \A a \in Artifacts : last.outcome[a] = "written"
    /\ \E n \in 0..(last.frame - 1) :
           /\ Exists(files, depthPath(n))
           /\ Exists(files, rgbPath(n))
           /\ Exists(files, metaPath(n))
           /\ files[depthPath(n)] # files[depthPath(last.frame)]

\* C4: a metadata record written by exportFrameData declares depth_width and
\* depth_height 0 exactly when the depth buffer of the call was unallocated,
\* and the width and height of that buffer otherwise; the same for rgb_width
\* and rgb_height and the colour buffer.
C4_MetadataDimensions ==
    (ByFrameData /\ last.outcome["metadata"] = "written") =>
        /\ Exists(files, metaPath(last.frame))
        /\ LET record == files[metaPath(last.frame)]
           IN  /\ Complete(record)
               /\ Member(record, "depth_width") = 0 <=> ~last.depthPixels.allocated
               /\ Member(record, "depth_height") = 0 <=> ~last.depthPixels.allocated
               /\ Member(record, "rgb_width") = 0 <=> ~last.colorPixels.allocated
               /\ Member(record, "rgb_height") = 0 <=> ~last.colorPixels.allocated
               /\ last.depthPixels.allocated =>
                      /\ Member(record, "depth_width") = last.depthPixels.width
                      /\ Member(record, "depth_height") = last.depthPixels.height
               /\ last.colorPixels.allocated =>
                      /\ Member(record, "rgb_width") = last.colorPixels.width
                      /\ Member(record, "rgb_height") = last.colorPixels.height

C4_Witness ==
    /\ ByFrameData /\ last.outcome["metadata"] = "written"
    /\ last.depthPixels.allocated
    /\ ~last.colorPixels.allocated
    /\ Member(files[metaPath(last.frame)], "depth_width") = Width
    /\ Member(files[metaPath(last.frame)], "rgb_width") = 0

\* the file an export function writes an artifact to
ArtifactPath(fn, a, n) ==
    IF fn = "exportFrameData"
    THEN (IF a = "depth" THEN depthPath(n) ELSE IF a = "color" THEN rgbPath(n) ELSE metaPath(n))
    ELSE (IF a = "depth" THEN kinectDepthPath ELSE kinectColorPath)

C6_FailedLeavesNoFile ==
    \A a \in Artifacts :
        (last.fn \in Snippets /\ last.outcome[a] = "failed") =>
            ~Exists(files, ArtifactPath(last.fn, a, last.frame))

\* C7: a depth file that exportFrameData wrote in full for frame n holds
\* exactly the bytes of the depth buffer passed in for frame n, no more and
\* no fewer, also after exports of other frames.
C7_DepthRoundTrip ==
    \A n \in DOMAIN depthPassed :
        /\ Exists(files, depthPath(n))
        /\ files[depthPath(n)].bytes = depthPassed[n]
        /\ Len(files[depthPath(n)].bytes) = Len(depthPassed[n])

C7_Witness ==
    /\ ByFrameData /\ last.outcome["depth"] = "written"
    /\ \E n \in DOMAIN depthPassed :
           /\ n < last.frame
           /\ depthPassed[n] # last.depthPixels.data
           /\ files[depthPath(n)].bytes = depthPassed[n]

\* C8, as claimed: a step of exportKinectData on a new frame leaves
\* kinect_depth.raw as it was when the depth buffer is unallocated, and
\* kinect_color.raw as it was when the colour buffer is unallocated.
C8_UnallocatedNotSaved ==
    [][(ExportKinectData /\ kinectGrabber.isFrameNew) =>
          /\ ~kinectGrabber.depthPixels.allocated => Same(files, files', kinectDepthPath)
          /\ ~kinectGrabber.colorPixels.allocated => Same(files, files', kinectColorPath)]_vars

\* C9, as claimed: a call of exportFrameData never writes exactly two
\* artifacts.
C9_NeverTwo ==
    ByFrameData => Count("written") # 2

\* C9, amended: a call of exportFrameData makes no write without a new frame
\* and otherwise writes the metadata and one file for each allocated buffer,
\* so one, two or three artifacts; the artifacts written are those attempted
\* less those whose write failed.
C9_ZeroToThree ==
    ByFrameData =>
        /\ Count("written") + Count("failed") = (IF last.isNew THEN 1 + Allocations ELSE 0)
        /\ Count("written") \in 0..3
        /\ Len(SelectSeq(last.log, LAMBDA e : e \in {"write depth", "write color", "write metadata"}))
               = Count("written") + Count("failed")

C9_Witness ==
    /\ ByFrameData /\ last.isNew
    /\ Allocations = 1
    /\ Count("written") = 2

\* C10, as claimed: in a call of exportFrameData both buffers are fetched
\* before any artifact is written, and the writes come in the order depth,
\* colour, metadata.
C10_FetchBeforeWrite ==
    (ByFrameData /\ last.isNew) =>
        /\ SubSeq(last.log, 1, 2) = <<"getDepthPixels", "getColorPixels">>
        /\ SelectSeq(last.log, LAMBDA e : e \in {"write depth", "write color", "write metadata"})
               = SelectSeq(<<"write depth", "write color", "write metadata">>,
                           LAMBDA e : e \in Range(last.log))

\* C10, amended: in a call of exportFrameData the depth buffer is fetched and,
\* if allocated, written before the colour buffer is fetched; then the colour
\* buffer is fetched and, if allocated, written; the metadata is written last.
C10_CallOrder ==
    (ByFrameData /\ last.isNew) =>
        last.log = <<"getDepthPixels">>
                   \o (IF last.depthPixels.allocated THEN <<"write depth">> ELSE <<>>)
                   \o <<"getColorPixels">>
                   \o (IF last.colorPixels.allocated THEN <<"write color">> ELSE <<>>)
                   \o <<"write metadata">>

C10_Witness ==
    /\ ByFrameData /\ last.isNew
    /\ last.depthPixels.allocated
    /\ last.colorPixels.allocated
    /\ last.log[2] = "write depth"
    /\ last.log[3] = "getColorPixels"

====
